---- MODULE Spec2Model ----
(***************************************************************************)
(* Model of the Council-of-AI verification core:                           *)
(*   - the hash-linked audit ledger   (src/tc260/blockchain.py)            *)
(*   - the API handlers that write it (src/council_api.py)                 *)
(*   - the vote aggregation           (src/tc260/council.py)               *)
(*   - the feedback statistics        (src/tc260/rlmai.py)                 *)
(*   - the module engine              (src/tc260/engine.py)                *)
(*   - the rate limiter   (src/backend/middleware/rate_limiting.py)        *)
(*   - the PDCA cycles                (src/tc260/pdca.py)                  *)
(*                                                                         *)
(* Specifications:                                                         *)
(*   Spec        the ledger's methods called one at a time                 *)
(*   SpecIndex   the same with the two lookups of the ledger               *)
(*   SpecConc    the ledger written by the API's background tasks, which   *)
(*               run on pool threads while the event loop serves requests  *)
(*   SpecConcFair  SpecConc with every added task run                      *)
(*   SpecAgg     one CouncilOf32.verify call: fan-in in completion order,  *)
(*               then _aggregate_votes                                     *)
(*   SpecReduce  _aggregate_votes on a votes dict                          *)
(*   SpecVerify, SpecVerifyFair  one CouncilOf32.verify call, fan-out to   *)
(*               return                                                    *)
(*   SpecStats, SpecRetrain  RLMAISystem.submit_feedback                   *)
(*   SpecEngine  TC260Engine.verify                                        *)
(*   SpecLimiter rate_limit_middleware                                     *)
(*   SpecPdca    PDCACycle                                                 *)
(***************************************************************************)
EXTENDS Integers, Sequences, FiniteSets, TLC

(***************************************************************************)
(* Bounds of the model and constants of the program.                       *)
(***************************************************************************)
\* Number of records (verdict summaries and feedback records) a run accepts.
MaxRecords == 3
\* Number of values a digest digit takes in the model (16 for a hex digit).
Radix == 2
\* blockchain = VerificationBlockchain(difficulty=2)
Difficulty == 2

VerificationIds == {"ver_1", "ver_2"}
UserIds == {"u1", "u2"}
\* The user whose request produced each verification id.
Requester(vid) == IF vid = "ver_1" THEN "u1" ELSE "u2"
FeedbackTypes == {"CORRECT"}
\* Readings of time.time(); successive readings never decrease.
TimeValues == 0 .. 1

None == <<>>

VARIABLES
    chain,                  \* self.chain: the list of Block objects
    heap,                   \* the list objects that hold verification records
    pending_verifications,  \* self.pending_verifications: a reference into heap
    clock,                  \* the last reading of time.time()
    lastCall                \* the last completed call and what it returned

ledgerVars == <<chain, heap, pending_verifications, clock, lastCall>>

(***************************************************************************)
(* Digests.  hashlib.sha256(...).hexdigest() is modelled as a value with   *)
(* two parts: the leading digits, a deterministic mix of the hashed        *)
(* fields, and the preimage itself, which stands for the remaining digits  *)
(* (two different preimages never have the same digest).                   *)
(***************************************************************************)
StrCode(s) ==
    CASE s \in {"ver_1", "u1", "CORRECT", "GENESIS"} -> 1
      [] s \in {"ver_2", "u2", "INCORRECT", "VERIFICATIONS"} -> 2
      [] OTHER -> 3

RecordCode(r) ==
    StrCode(r.verification_id) + 2 * StrCode(r.user_id)

RECURSIVE SeqCode(_)
SeqCode(s) ==
    IF s = <<>> THEN 0 ELSE RecordCode(s[1]) + 3 * SeqCode(Tail(s))

\* The hashed form of a block's data: json.dumps follows the reference to
\* the list of verification records and writes its contents at that moment.
Content(data, h) ==
    IF data.type = "VERIFICATIONS"
    THEN [type |-> data.type,
          verifications |-> h[data.verifications],
          count |-> data.count]
    ELSE data

ContentCode(c) ==
    CASE c.type = "VERIFICATIONS" -> 2 + SeqCode(c.verifications) + c.count
      [] c.type = "FEEDBACK" -> 3 + RecordCode(c.feedback)
      [] OTHER -> 1 + c.created_at

\* The digits of n, most significant first, in Difficulty places.
Digits(n) ==
    [i \in 1 .. Difficulty |->
        (n \div (Radix ^ (Difficulty - i))) % Radix]

\* The previous_hash of the genesis block: the string "0".
ZeroHash == [digits |-> <<0>>, pre |-> <<>>]

sha256(pre) ==
    [digits |-> Digits((pre[1] + 2 * pre[2] + ContentCode(pre[3])
                          + Len(pre[4].pre) + pre[5]) % (Radix ^ Difficulty)),
     pre |-> pre]

\* Block.calculate_hash
calculate_hash(b, h) ==
    sha256(<<b.index, b.timestamp, Content(b.data, h), b.previous_hash, b.nonce>>)

\* hash[:difficulty] == "0" * difficulty
HasLeadingZeros(hash, d) ==
    /\ Len(hash.digits) >= d
    /\ \A i \in 1 .. d : hash.digits[i] = 0

\* Block.__init__
Block(index, timestamp, data, previous_hash, h) ==
    LET b0 == [index |-> index, timestamp |-> timestamp, data |-> data,
               previous_hash |-> previous_hash, nonce |-> 0, hash |-> ZeroHash]
    IN  [b0 EXCEPT !.hash = calculate_hash(b0, h)]

\* One iteration of the loop of Block.mine_block.
mine_step(b, h) ==
    LET b1 == [b EXCEPT !.nonce = b.nonce + 1]
    IN  [b1 EXCEPT !.hash = calculate_hash(b1, h)]

\* A mine_block that returns without searching for a nonce.
mine_block_skip(b, h, d) == b

\* Block.mine_block
RECURSIVE mine_block(_, _, _)
mine_block(b, h, d) ==
    IF HasLeadingZeros(b.hash, d) THEN b ELSE mine_block(mine_step(b, h), h, d)

\* Block.to_dict
to_dict(b) ==
    [index |-> b.index, timestamp |-> b.timestamp, data |-> b.data,
     previous_hash |-> b.previous_hash, nonce |-> b.nonce, hash |-> b.hash]

(***************************************************************************)
(* VerificationBlockchain                                                  *)
(***************************************************************************)
\* VerificationBlockchain._create_genesis_block
create_genesis_block(ts, h) ==
    mine_block(Block(0, ts, [type |-> "GENESIS", created_at |-> ts], ZeroHash, h),
               h, Difficulty)

\* VerificationBlockchain.get_latest_block
get_latest_block(c) == c[Len(c)]

\* A validity check that leaves out the comparison of previous_hash.
is_chain_valid_nolink(c, h, d) ==
    \A i \in 2 .. Len(c) :
        /\ c[i].hash = calculate_hash(c[i], h)
        /\ HasLeadingZeros(c[i].hash, d)

\* VerificationBlockchain.is_chain_valid
is_chain_valid(c, h, d) ==
    \A i \in 2 .. Len(c) :
        /\ c[i].hash = calculate_hash(c[i], h)
        /\ c[i].previous_hash = c[i - 1].hash
        /\ HasLeadingZeros(c[i].hash, d)

\* The verification_record built by add_verification; the fields the model
\* leaves out (content_hash, the overall figures, metadata) are carried
\* unchanged and read by no ledger operation.
VerificationRecord(vid, uid) ==
    [verification_id |-> vid, user_id |-> uid]

\* The feedback_record built by add_feedback.
FeedbackRecord(fid, vid, ftype, uid) ==
    [feedback_id |-> fid, verification_id |-> vid,
     feedback_type |-> ftype, user_id |-> uid]

\* Records accepted so far: sealed verdict summaries, feedback entries, and
\* the pending batch.
RECURSIVE ChainRecords(_, _)
ChainRecords(c, h) ==
    IF c = <<>> THEN 0
    ELSE ChainRecords(SubSeq(c, 1, Len(c) - 1), h)
         + (CASE c[Len(c)].data.type = "VERIFICATIONS" ->
                    Len(h[c[Len(c)].data.verifications])
              [] c[Len(c)].data.type = "FEEDBACK" -> 1
              [] OTHER -> 0)

Accepted == ChainRecords(chain, heap) + Len(heap[pending_verifications])

\* VerificationBlockchain.add_verification
add_verification(vid, uid) ==
    /\ Accepted < MaxRecords
    /\ heap' = [heap EXCEPT ![pending_verifications] =
                    Append(@, VerificationRecord(vid, uid))]
    /\ lastCall' = [op |-> "add_verification",
                    args |-> <<VerificationRecord(vid, uid)>>,
                    ret |-> <<VerificationRecord(vid, uid)>>]
    /\ UNCHANGED <<chain, pending_verifications, clock>>

\* A seal that always builds a block, the empty batch included.
mine_pending_verifications_noguard(ts) ==
    /\ ts >= clock
    /\ clock' = ts
    /\ LET new_block ==
               mine_block(
                   Block(Len(chain), ts,
                         [type |-> "VERIFICATIONS",
                          verifications |-> pending_verifications,
                          count |-> Len(heap[pending_verifications])],
                         get_latest_block(chain).hash, heap),
                   heap, Difficulty)
       IN  /\ chain' = Append(chain, new_block)
           /\ heap' = Append(heap, <<>>)
           /\ pending_verifications' = Len(heap) + 1
           /\ lastCall' = [op |-> "mine_pending_verifications",
                           args |-> <<>>, ret |-> <<new_block>>]

\* A seal that leaves the batch pending.
mine_pending_verifications_keep(ts) ==
    /\ ts >= clock
    /\ clock' = ts
    /\ IF heap[pending_verifications] = <<>>
       THEN /\ lastCall' = [op |-> "mine_pending_verifications",
                            args |-> <<>>, ret |-> None]
            /\ UNCHANGED <<chain, heap, pending_verifications>>
       ELSE LET new_block ==
                    mine_block(
                        Block(Len(chain), ts,
                              [type |-> "VERIFICATIONS",
                               verifications |-> pending_verifications,
                               count |-> Len(heap[pending_verifications])],
                              get_latest_block(chain).hash, heap),
                        heap, Difficulty)
            IN  /\ chain' = Append(chain, new_block)
                /\ lastCall' = [op |-> "mine_pending_verifications",
                                args |-> <<>>, ret |-> <<new_block>>]
                /\ UNCHANGED <<heap, pending_verifications>>

\* VerificationBlockchain.mine_pending_verifications
mine_pending_verifications(ts) ==
    /\ ts >= clock
    /\ clock' = ts
    /\ IF heap[pending_verifications] = <<>>
       THEN /\ lastCall' = [op |-> "mine_pending_verifications",
                            args |-> <<>>, ret |-> None]
            /\ UNCHANGED <<chain, heap, pending_verifications>>
       ELSE LET new_block ==
                    mine_block(
                        Block(Len(chain), ts,
                              [type |-> "VERIFICATIONS",
                               verifications |-> pending_verifications,
                               count |-> Len(heap[pending_verifications])],
                              get_latest_block(chain).hash, heap),
                        heap, Difficulty)
            IN  /\ chain' = Append(chain, new_block)
                /\ heap' = Append(heap, <<>>)
                /\ pending_verifications' = Len(heap) + 1
                /\ lastCall' = [op |-> "mine_pending_verifications",
                                args |-> <<>>, ret |-> <<new_block>>]

\* A feedback seal that also empties the pending batch.
add_feedback_batched(fid, vid, ftype, uid, ts) ==
    /\ Accepted < MaxRecords
    /\ ts >= clock
    /\ clock' = ts
    /\ LET new_block ==
               mine_block(
                   Block(Len(chain), ts,
                         [type |-> "FEEDBACK",
                          feedback |-> FeedbackRecord(fid, vid, ftype, uid)],
                         get_latest_block(chain).hash, heap),
                   heap, Difficulty)
       IN  /\ chain' = Append(chain, new_block)
           /\ heap' = Append(heap, <<>>)
           /\ pending_verifications' = Len(heap) + 1
           /\ lastCall' = [op |-> "add_feedback",
                           args |-> <<FeedbackRecord(fid, vid, ftype, uid)>>,
                           ret |-> <<new_block>>]

\* VerificationBlockchain.add_feedback
add_feedback(fid, vid, ftype, uid, ts) ==
    /\ Accepted < MaxRecords
    /\ ts >= clock
    /\ clock' = ts
    /\ LET new_block ==
               mine_block(
                   Block(Len(chain), ts,
                         [type |-> "FEEDBACK",
                          feedback |-> FeedbackRecord(fid, vid, ftype, uid)],
                         get_latest_block(chain).hash, heap),
                   heap, Difficulty)
       IN  /\ chain' = Append(chain, new_block)
           /\ lastCall' = [op |-> "add_feedback",
                           args |-> <<FeedbackRecord(fid, vid, ftype, uid)>>,
                           ret |-> <<new_block>>]
           /\ UNCHANGED <<heap, pending_verifications>>

\* An export that lists the newest entry first.
export_chain_reversed ==
    /\ lastCall' = [op |-> "export_chain", args |-> <<>>,
                    ret |-> [i \in 1 .. Len(chain) |->
                                to_dict(chain[Len(chain) + 1 - i])]]
    /\ UNCHANGED <<chain, heap, pending_verifications, clock>>

\* VerificationBlockchain.export_chain
export_chain ==
    /\ lastCall' = [op |-> "export_chain", args |-> <<>>,
                    ret |-> [i \in 1 .. Len(chain) |-> to_dict(chain[i])]]
    /\ UNCHANGED <<chain, heap, pending_verifications, clock>>

\* The entries get_verification_history appends for one block.
block_history(b, h, verification_id) ==
    IF b.data.type = "VERIFICATIONS"
    THEN LET matches(v) == v.verification_id = verification_id
             found == SelectSeq(h[b.data.verifications], matches)
         IN  [i \in DOMAIN found |->
                [block_index |-> b.index, block_hash |-> b.hash,
                 timestamp |-> b.timestamp, type |-> "VERIFICATION",
                 data |-> found[i]]]
    ELSE IF b.data.type = "FEEDBACK"
              /\ b.data.feedback.verification_id = verification_id
         THEN <<[block_index |-> b.index, block_hash |-> b.hash,
                 timestamp |-> b.timestamp, type |-> "FEEDBACK",
                 data |-> b.data.feedback]>>
         ELSE <<>>

\* The entries of a history that skips the FEEDBACK blocks.
block_history_no_feedback(b, h, verification_id) ==
    IF b.data.type = "VERIFICATIONS"
    THEN block_history(b, h, verification_id)
    ELSE <<>>

\* A history built from the VERIFICATIONS blocks alone.
RECURSIVE history_of_no_feedback(_, _, _)
history_of_no_feedback(c, h, verification_id) ==
    IF c = <<>> THEN <<>>
    ELSE history_of_no_feedback(SubSeq(c, 1, Len(c) - 1), h, verification_id)
            \o block_history_no_feedback(c[Len(c)], h, verification_id)

\* The list built by the loop of get_verification_history over c.
RECURSIVE history_of(_, _, _)
history_of(c, h, verification_id) ==
    IF c = <<>> THEN <<>>
    ELSE history_of(SubSeq(c, 1, Len(c) - 1), h, verification_id)
            \o block_history(c[Len(c)], h, verification_id)

\* VerificationBlockchain.get_verification_history
get_verification_history(verification_id) ==
    /\ lastCall' = [op |-> "get_verification_history",
                    args |-> <<verification_id>>,
                    ret |-> history_of(chain, heap, verification_id)]
    /\ UNCHANGED <<chain, heap, pending_verifications, clock>>

\* The entries get_user_verifications appends for one block.
block_user_verifications(b, h, user_id) ==
    IF b.data.type = "VERIFICATIONS"
    THEN LET matches(v) == v.user_id = user_id
             found == SelectSeq(h[b.data.verifications], matches)
         IN  [i \in DOMAIN found |->
                [block_index |-> b.index, block_hash |-> b.hash,
                 timestamp |-> b.timestamp, verification |-> found[i]]]
    ELSE <<>>

\* The list built by the loop of get_user_verifications over c.
RECURSIVE user_verifications_of(_, _, _)
user_verifications_of(c, h, user_id) ==
    IF c = <<>> THEN <<>>
    ELSE user_verifications_of(SubSeq(c, 1, Len(c) - 1), h, user_id)
            \o block_user_verifications(c[Len(c)], h, user_id)

\* VerificationBlockchain.get_user_verifications
get_user_verifications(user_id) ==
    /\ lastCall' = [op |-> "get_user_verifications",
                    args |-> <<user_id>>,
                    ret |-> user_verifications_of(chain, heap, user_id)]
    /\ UNCHANGED <<chain, heap, pending_verifications, clock>>

\* The feedback id the caller passes: f"fb_{...}" of the n-th feedback.
FeedbackIds == {"fb_1"}

\* VerificationBlockchain.__init__
InitLedger ==
    /\ heap = << <<>> >>
    /\ pending_verifications = 1
    /\ clock = 0
    /\ chain = << create_genesis_block(0, << <<>> >>) >>
    /\ lastCall = [op |-> "init", args |-> <<>>, ret |-> None]

(***************************************************************************)
(* Floating point.  The confidences, risk scores and their sums are         *)
(* Python floats.  A float is modelled as an integer count of units of      *)
(* 2^-FracBits that has at most PrecisionBits significant bits (53 and 1074 *)
(* for a Python float); every operation rounds its exact result to the      *)
(* nearest such value, ties to the even significand.                        *)
(***************************************************************************)
PrecisionBits == 9
FracBits == 12

Unit == 2 ^ FracBits

\* The spacing of the floats around a magnitude of q units.
RECURSIVE Ulp(_)
Ulp(q) == IF q < 2 ^ PrecisionBits THEN 1 ELSE 2 * Ulp(q \div 2)

RoundPos(n, d) ==
    LET q == n \div d
        u == Ulp(q)
        lo == (q \div u) * u
        r == n - lo * d
    IN  IF 2 * r < u * d THEN lo
        ELSE IF 2 * r > u * d THEN lo + u
        ELSE IF (lo \div u) % 2 = 0 THEN lo ELSE lo + u

\* The float nearest to n/d units.
Round(n, d) == IF n < 0 THEN 0 - RoundPos(0 - n, d) ELSE RoundPos(n, d)

\* x + y
float_add(x, y) == Round(x + y, 1)

\* x / y for floats x and y
float_div(x, y) == Round(x * Unit, y)

\* x / n for a float x and an int n
float_div_int(x, n) == Round(x, n)

\* float("0.hh"): the float nearest to hundredths/100
float_of_decimal(hundredths) == Round(hundredths * Unit, 100)

\* float(n) for an int n
float_of_int(n) == Round(n * Unit, 1)

(***************************************************************************)
(* RLMAISystem (src/tc260/rlmai.py)                                        *)
(***************************************************************************)
\* self.improvement_threshold
improvement_threshold == 100

\* create_training_job: "if len(training_data) < 10"
min_training_examples == 10

\* The category_id of the feedback requests.
FeedbackCategories == {"TC260-01"}

VARIABLES
    feedback_log,   \* RLMAIFeedback.feedback_log
    training_jobs,  \* RLMAITrainer.training_jobs, in the order of creation
    responses       \* what the feedback handler has returned, oldest first

rlmaiVars == <<feedback_log, training_jobs, responses>>

InitRlmai ==
    /\ feedback_log = <<>>
    /\ training_jobs = <<>>
    /\ responses = <<>>

\* The feedback dict built by RLMAIFeedback.record_feedback.
Feedback(fid, vid, cat, ftype, uid, corrected_vote) ==
    [feedback_id |-> fid, verification_id |-> vid, category_id |-> cat,
     feedback_type |-> ftype, user_id |-> uid, corrected_vote |-> corrected_vote]

\* _get_stats_from_memory without the filter on category_id.
get_feedback_stats_unfiltered(log, cat) ==
    LET total == Len(log)
        count(ftype) == Cardinality({i \in DOMAIN log : log[i].feedback_type = ftype})
    IN  IF total = 0
        THEN [total_feedback |-> 0, accuracy |-> 0,
              false_positive_rate |-> 0, false_negative_rate |-> 0]
        ELSE [total_feedback |-> total,
              accuracy |-> Round(count("CORRECT") * Unit, total),
              false_positive_rate |-> Round(count("FALSE_POSITIVE") * Unit, total),
              false_negative_rate |-> Round(count("FALSE_NEGATIVE") * Unit, total),
              category_id |-> cat]

\* RLMAIFeedback._get_stats_from_memory for a category id
get_feedback_stats(log, cat) ==
    LET of_cat == {i \in DOMAIN log : log[i].category_id = cat}
        total == Cardinality(of_cat)
        count(ftype) == Cardinality({i \in of_cat : log[i].feedback_type = ftype})
    IN  IF total = 0
        THEN [total_feedback |-> 0, accuracy |-> 0,
              false_positive_rate |-> 0, false_negative_rate |-> 0]
        ELSE [total_feedback |-> total,
              accuracy |-> Round(count("CORRECT") * Unit, total),
              false_positive_rate |-> Round(count("FALSE_POSITIVE") * Unit, total),
              false_negative_rate |-> Round(count("FALSE_NEGATIVE") * Unit, total),
              category_id |-> cat]

\* RLMAIFeedback._get_training_data_from_memory: the number of examples
get_training_data(log, cat) ==
    Cardinality({i \in DOMAIN log :
                    log[i].category_id = cat /\ log[i].corrected_vote # None})

\* RLMAITrainer.create_training_job: the dict it returns
create_training_job(cat, examples) ==
    IF examples < min_training_examples
    THEN [status |-> "INSUFFICIENT_DATA", category_id |-> cat]
    ELSE [status |-> "TRAINING", category_id |-> cat,
          training_examples |-> examples]

\* RLMAISystem.submit_feedback: the result for the log with the new record
rlmai_result(log, f) ==
    LET stats == get_feedback_stats(log, f.category_id)
    IN  IF stats.total_feedback >= improvement_threshold
        THEN [feedback |-> f, stats |-> stats,
              training_job |->
                create_training_job(f.category_id,
                                    get_training_data(log, f.category_id))]
        ELSE [feedback |-> f, stats |-> stats]

\* RLMAISystem.submit_feedback
rlmai_submit_feedback(f) ==
    LET log == Append(feedback_log, f)
        res == rlmai_result(log, f)
    IN  /\ feedback_log' = log
        /\ training_jobs' =
                IF "training_job" \in DOMAIN res
                   /\ res.training_job.status = "TRAINING"
                THEN Append(training_jobs, res.training_job)
                ELSE training_jobs
        /\ responses' = Append(responses, res)

(***************************************************************************)
(* The API's writers (src/council_api.py).  The handlers are coroutines    *)
(* on the event loop; blockchain.mine_pending_verifications and            *)
(* blockchain.add_feedback are handed to BackgroundTasks, which runs a     *)
(* plain function on a pool thread after the response is sent, so they run *)
(* beside the event loop and beside each other.  A worker's step is a run  *)
(* of statements between two points where the interpreter may switch       *)
(* threads.                                                                *)
(***************************************************************************)
Workers == {"w1", "w2"}

VARIABLES
    tasks,      \* background tasks added and not yet started, oldest first
    pc,         \* where each pool thread is in the function it runs
    new_block,  \* each pool thread's local new_block
    requests,   \* number of requests handled so far
    submitted   \* the verification records add_verification has accepted

concVars == <<tasks, pc, new_block, requests, submitted>>

\* No request received, no task added, the pool threads idle.
InitPool ==
    /\ tasks = <<>>
    /\ pc = [t \in Workers |-> "idle"]
    /\ new_block = [t \in Workers |-> None]
    /\ requests = 0
    /\ submitted = <<>>

InitConc == InitRlmai /\ InitPool

\* verify_content: blockchain.add_verification(...) on the event loop, then
\* background_tasks.add_task(blockchain.mine_pending_verifications).
verify_content(vid, uid) ==
    /\ requests < MaxRecords
    /\ add_verification(vid, uid)
    /\ submitted' = Append(submitted, VerificationRecord(vid, uid))
    /\ tasks' = Append(tasks, [fn |-> "mine_pending_verifications", args |-> <<>>])
    /\ requests' = requests + 1
    /\ UNCHANGED <<pc, new_block>>

\* submit_feedback: rlmai.submit_feedback(...), then
\* background_tasks.add_task(blockchain.add_feedback, ...), then the return
\* of the result.
submit_feedback(fid, vid, cat, ftype, uid) ==
    /\ requests < MaxRecords
    /\ rlmai_submit_feedback(Feedback(fid, vid, cat, ftype, uid, None))
    /\ tasks' = Append(tasks, [fn |-> "add_feedback",
                               args |-> <<FeedbackRecord(fid, vid, ftype, uid)>>])
    /\ requests' = requests + 1
    /\ UNCHANGED <<ledgerVars, pc, new_block, submitted>>

\* A pool thread starts mine_pending_verifications: the emptiness test and,
\* past it, the construction of new_block, whose data refers to the very
\* list self.pending_verifications refers to.
mine_begin(t, ts) ==
    /\ pc[t] = "idle"
    /\ tasks # <<>>
    /\ Head(tasks).fn = "mine_pending_verifications"
    /\ tasks' = Tail(tasks)
    /\ ts >= clock
    /\ clock' = ts
    /\ IF heap[pending_verifications] = <<>>
       THEN UNCHANGED <<pc, new_block>>
       ELSE /\ new_block' = [new_block EXCEPT ![t] =
                    Block(Len(chain), ts,
                          [type |-> "VERIFICATIONS",
                           verifications |-> pending_verifications,
                           count |-> Len(heap[pending_verifications])],
                          get_latest_block(chain).hash, heap)]
            /\ pc' = [pc EXCEPT ![t] = "mine_block"]
    /\ UNCHANGED <<chain, heap, pending_verifications, lastCall, requests, submitted>>

\* A pool thread starts add_feedback: the construction of new_block.
feedback_begin(t, ts) ==
    /\ pc[t] = "idle"
    /\ tasks # <<>>
    /\ Head(tasks).fn = "add_feedback"
    /\ tasks' = Tail(tasks)
    /\ ts >= clock
    /\ clock' = ts
    /\ new_block' = [new_block EXCEPT ![t] =
            Block(Len(chain), ts,
                  [type |-> "FEEDBACK", feedback |-> Head(tasks).args[1]],
                  get_latest_block(chain).hash, heap)]
    /\ pc' = [pc EXCEPT ![t] = "mine_block_feedback"]
    /\ UNCHANGED <<chain, heap, pending_verifications, lastCall, requests, submitted>>

\* One test of the loop of new_block.mine_block(self.difficulty), and one
\* iteration when the test fails; calculate_hash reads the list as it is now.
mine_iteration(t) ==
    /\ pc[t] \in {"mine_block", "mine_block_feedback"}
    /\ IF HasLeadingZeros(new_block[t].hash, Difficulty)
       THEN /\ pc' = [pc EXCEPT ![t] =
                        IF pc[t] = "mine_block" THEN "append" ELSE "append_feedback"]
            /\ UNCHANGED new_block
       ELSE /\ new_block' = [new_block EXCEPT ![t] = mine_step(new_block[t], heap)]
            /\ UNCHANGED pc
    /\ UNCHANGED <<ledgerVars, tasks, requests, submitted>>

\* self.chain.append(new_block)
append_block(t) ==
    /\ pc[t] \in {"append", "append_feedback"}
    /\ chain' = Append(chain, new_block[t])
    /\ pc' = [pc EXCEPT ![t] = IF pc[t] = "append" THEN "clear" ELSE "idle"]
    /\ UNCHANGED <<heap, pending_verifications, clock, lastCall,
                   tasks, new_block, requests, submitted>>

\* self.pending_verifications = []
clear_pending(t) ==
    /\ pc[t] = "clear"
    /\ heap' = Append(heap, <<>>)
    /\ pending_verifications' = Len(heap) + 1
    /\ pc' = [pc EXCEPT ![t] = "idle"]
    /\ UNCHANGED <<chain, clock, lastCall, tasks, new_block, requests, submitted>>

(***************************************************************************)
(* CouncilOf32 (src/tc260/council.py)                                      *)
(***************************************************************************)
\* Three of the ids of RISK_CATEGORIES.
Categories == {"TC260-01", "TC260-02", "TC260-03"}

VoteValues == {"PASS", "FAIL", "WARNING"}

\* What _parse_response reads after "CONFIDENCE:" and "RISK_SCORE:".
ConfidenceHundredths == {10, 30, 60}
RiskScores == {20, 90}

\* The analyses a council member may return.
Analyses ==
    [vote : VoteValues,
     confidence : {float_of_decimal(x) : x \in ConfidenceHundredths},
     risk_score : {float_of_int(x) : x \in RiskScores}]

VARIABLES
    member_votes,  \* what each council member's analyze returns in this call
    votes,         \* the votes dict of _verify_parallel, in insertion order
    result,        \* what verify returns
    agg_pc         \* where the verify call is

aggVars == <<member_votes, votes, result, agg_pc>>

\* sum(risk_scores)
RECURSIVE py_sum(_, _)
py_sum(xs, start) ==
    IF xs = <<>> THEN start ELSE py_sum(Tail(xs), float_add(start, Head(xs)))

\* A loop body that adds a FAIL vote's confidence with the sign of a PASS.
tally_step_unsigned(acc, vote_data) ==
    [total_weight |-> float_add(acc.total_weight, vote_data.confidence),
     weighted_sum |->
        IF vote_data.vote \in {"FAIL", "PASS"}
        THEN float_add(acc.weighted_sum, vote_data.confidence)
        ELSE acc.weighted_sum,
     risk_scores |-> Append(acc.risk_scores, vote_data.risk_score),
     fail_count |-> acc.fail_count + (IF vote_data.vote = "FAIL" THEN 1 ELSE 0),
     pass_count |-> acc.pass_count + (IF vote_data.vote = "PASS" THEN 1 ELSE 0),
     warning_count |->
        acc.warning_count + (IF vote_data.vote \in {"FAIL", "PASS"} THEN 0 ELSE 1)]

\* A loop body that does not count the FAIL votes.
tally_step_uncounted(acc, vote_data) ==
    [total_weight |-> float_add(acc.total_weight, vote_data.confidence),
     weighted_sum |->
        CASE vote_data.vote = "FAIL" ->
                float_add(acc.weighted_sum, 0 - vote_data.confidence)
          [] vote_data.vote = "PASS" ->
                float_add(acc.weighted_sum, vote_data.confidence)
          [] OTHER -> acc.weighted_sum,
     risk_scores |-> Append(acc.risk_scores, vote_data.risk_score),
     fail_count |-> acc.fail_count,
     pass_count |-> acc.pass_count + (IF vote_data.vote = "PASS" THEN 1 ELSE 0),
     warning_count |->
        acc.warning_count + (IF vote_data.vote \in {"FAIL", "PASS"} THEN 0 ELSE 1)]

\* The body of the loop "for category_id, vote_data in votes.items()".
tally_step(acc, vote_data) ==
    [total_weight |-> float_add(acc.total_weight, vote_data.confidence),
     weighted_sum |->
        CASE vote_data.vote = "FAIL" ->
                float_add(acc.weighted_sum, 0 - vote_data.confidence)
          [] vote_data.vote = "PASS" ->
                float_add(acc.weighted_sum, vote_data.confidence)
          [] OTHER -> acc.weighted_sum,
     risk_scores |-> Append(acc.risk_scores, vote_data.risk_score),
     fail_count |-> acc.fail_count + (IF vote_data.vote = "FAIL" THEN 1 ELSE 0),
     pass_count |-> acc.pass_count + (IF vote_data.vote = "PASS" THEN 1 ELSE 0),
     warning_count |->
        acc.warning_count + (IF vote_data.vote \in {"FAIL", "PASS"} THEN 0 ELSE 1)]

RECURSIVE tally(_, _)
tally(vs, acc) ==
    IF vs = <<>> THEN acc ELSE tally(Tail(vs), tally_step(acc, Head(vs)))

\* A reduction that reports an empty votes dict as a PASS.
no_votes_result_pass ==
    [overall_vote |-> "PASS",
     overall_confidence |-> 0,
     overall_risk_score |-> float_of_int(50),
     votes |-> {}]

\* The dict _aggregate_votes returns "if not votes".
no_votes_result ==
    [overall_vote |-> "WARNING",
     overall_confidence |-> 0,
     overall_risk_score |-> float_of_int(50),
     votes |-> {}]

\* CouncilOf32._aggregate_votes; vs is the dict's items in iteration order.
aggregate_votes(vs) ==
    IF vs = <<>>
    THEN no_votes_result
    ELSE LET t == tally(vs, [total_weight |-> 0, weighted_sum |-> 0,
                             risk_scores |-> <<>>, fail_count |-> 0,
                             pass_count |-> 0, warning_count |-> 0])
             weighted_average ==
                IF t.total_weight > 0
                THEN float_div(t.weighted_sum, t.total_weight)
                ELSE 0
             threshold == float_of_decimal(30)
         IN  [overall_vote |->
                IF \/ weighted_average < 0 - threshold
                   \/ t.fail_count * Unit > Round(Len(vs) * Unit, 4)
                THEN "FAIL"
                ELSE IF weighted_average > threshold /\ t.fail_count = 0
                     THEN "PASS"
                     ELSE "WARNING",
              overall_confidence |-> float_div_int(t.total_weight, Len(vs)),
              overall_risk_score |->
                float_div_int(py_sum(t.risk_scores, 0), Len(t.risk_scores)),
              votes |-> {vs[i] : i \in DOMAIN vs},
              vote_counts |-> [fail |-> t.fail_count,
                               warning |-> t.warning_count,
                               pass |-> t.pass_count]]

\* The state of a council that is not asked anything.
InitAggIdle ==
    /\ member_votes = [c \in Categories |->
            [vote |-> "WARNING", confidence |-> 0, risk_score |-> 0]]
    /\ votes = <<>>
    /\ result = None
    /\ agg_pc = "idle"

\* verify(content) with parallel=True: every member has been submitted to
\* the pool; the members' analyses are this call's inputs.
InitVerify ==
    /\ member_votes \in [Categories -> Analyses]
    /\ votes = <<>>
    /\ result = None
    /\ agg_pc = "as_completed"

\* One turn of "for future in as_completed(future_to_category)": the future
\* of category c is the next to complete and votes[c] is set.
collect_vote(c) ==
    /\ agg_pc = "as_completed"
    /\ \A i \in DOMAIN votes : votes[i].category # c
    /\ votes' = Append(votes,
            [category |-> c, vote |-> member_votes[c].vote,
             confidence |-> member_votes[c].confidence,
             risk_score |-> member_votes[c].risk_score])
    /\ UNCHANGED <<member_votes, result, agg_pc>>

\* The loop is over: result = self._aggregate_votes(votes)
aggregate ==
    /\ agg_pc = "as_completed"
    /\ Len(votes) = Cardinality(Categories)
    /\ result' = aggregate_votes(votes)
    /\ agg_pc' = "done"
    /\ UNCHANGED <<member_votes, votes>>

(***************************************************************************)
(* One call of CouncilOf32.verify with parallel=True, as the API builds    *)
(* the council: the fan-out to the pool, the evaluators running beside     *)
(* the caller, the fan-in and the reduction.  The call uses votes, result  *)
(* and agg_pc for its votes dict, its return value and its position.       *)
(***************************************************************************)
\* An id that is no key of RISK_CATEGORIES.
UnknownId == "TC260-99"

\* The contents a caller passes: the empty string and a non-empty one.
Contents == {"", "text"}

\* The categories argument: None, or <<l>> for a list l of at most two ids.
CategoryLists ==
    {None}
    \cup {<<l>> : l \in
            {<<>>}
            \cup {<<c>> : c \in Categories \cup {UnknownId}}
            \cup {<<c, d>> : c \in Categories \cup {UnknownId},
                             d \in Categories \cup {UnknownId}}}

\* list(self.council_members.keys())
AllCategories == <<"TC260-01", "TC260-02", "TC260-03">>

\* How an evaluator's analyze behaves in this call: it returns an analysis
\* within 30 seconds ("returns") or after more than 30 seconds ("slow"),
\* the model client raises inside the try block ("api_error"), building
\* the prompt raises before the try block ("prompt_error"), or the client
\* never answers ("hangs").
Behaviours == {"returns", "slow", "api_error", "prompt_error", "hangs"}

\* What _parse_response makes of the answers of this call.
ParsedAnalyses ==
    {[vote |-> "PASS", confidence |-> float_of_decimal(60),
      risk_score |-> float_of_int(20)],
     [vote |-> "FAIL", confidence |-> float_of_decimal(60),
      risk_score |-> float_of_int(90)]}

VARIABLES
    content,             \* the content argument of verify
    categories,          \* the categories argument of verify
    categories_to_test,  \* verify's local of that name
    future_to_category,  \* the futures submitted, in the order of submission
    exception            \* <<the exception that leaves verify>>, or None

callVars == <<content, categories, categories_to_test, future_to_category,
              exception>>

InitCallIdle ==
    /\ content = "text"
    /\ categories = None
    /\ categories_to_test = <<>>
    /\ future_to_category = <<>>
    /\ exception = None

\* A caller is about to call council.verify(content, categories=categories).
InitCall ==
    /\ content \in Contents
    /\ categories \in CategoryLists
    /\ categories_to_test = <<>>
    /\ future_to_category = <<>>
    /\ exception = None
    /\ member_votes = [c \in Categories |->
            [vote |-> "WARNING", confidence |-> 0, risk_score |-> 0]]
    /\ votes = <<>>
    /\ result = None
    /\ agg_pc = "verify"

\* The fallback analyze returns from its except block.
analyze_fallback ==
    [vote |-> "WARNING", confidence |-> float_of_decimal(50),
     risk_score |-> float_of_int(50)]

\* The fallback the fan-in stores when future.result raises.
fan_in_fallback ==
    [vote |-> "WARNING", confidence |-> 0, risk_score |-> float_of_int(50)]

\* verify: categories_to_test = categories or list(...), then the call of
\* _verify_parallel.
verify_enter ==
    /\ agg_pc = "verify"
    /\ categories_to_test' =
            IF categories = None THEN AllCategories
            ELSE IF categories[1] = <<>> THEN AllCategories
            ELSE categories[1]
    /\ agg_pc' = "submit"
    /\ UNCHANGED <<content, categories, future_to_category, exception,
                   member_votes, votes, result>>

\* One item of the dict comprehension of _verify_parallel:
\* executor.submit(self.council_members[cat].analyze, content, context).
\* The lookup of an unknown id raises KeyError, which leaves the with block.
submit_next ==
    /\ agg_pc = "submit"
    /\ LET i == Len(future_to_category) + 1
       IN  IF i > Len(categories_to_test)
           THEN /\ agg_pc' = "as_completed"
                /\ UNCHANGED <<future_to_category, exception>>
           ELSE IF categories_to_test[i] \notin Categories
                THEN /\ exception' = <<"KeyError">>
                     /\ agg_pc' = "shutdown"
                     /\ UNCHANGED future_to_category
                ELSE /\ \E b \in Behaviours, a \in ParsedAnalyses :
                            /\ b \notin {"returns", "slow"} => a.vote = "PASS"
                            /\ future_to_category' = Append(future_to_category,
                                    [category |-> categories_to_test[i],
                                     behaviour |-> b, analysis |-> a,
                                     state |-> "running", late |-> FALSE,
                                     collected |-> FALSE])
                     /\ UNCHANGED <<agg_pc, exception>>
    /\ UNCHANGED <<content, categories, categories_to_test,
                   member_votes, votes, result>>

\* Thirty seconds have passed since the evaluator of future j was started
\* and it is still running.
thirty_seconds_pass(j) ==
    /\ j \in DOMAIN future_to_category
    /\ future_to_category[j].state = "running"
    /\ future_to_category[j].behaviour \in {"slow", "hangs"}
    /\ ~future_to_category[j].late
    /\ future_to_category' = [future_to_category EXCEPT ![j].late = TRUE]
    /\ UNCHANGED <<content, categories, categories_to_test, exception, aggVars>>

\* CouncilMember.analyze of future j ends: it returns the parsed analysis,
\* returns its fallback when the client raised, or raises.
analyze_ends(j) ==
    /\ j \in DOMAIN future_to_category
    /\ future_to_category[j].state = "running"
    /\ future_to_category[j].behaviour # "hangs"
    /\ future_to_category[j].behaviour = "slow" => future_to_category[j].late
    /\ future_to_category' = [future_to_category EXCEPT
            ![j].state =
                IF future_to_category[j].behaviour = "prompt_error"
                THEN "raised" ELSE "returned",
            ![j].analysis =
                IF future_to_category[j].behaviour = "api_error"
                THEN analyze_fallback ELSE @]
    /\ UNCHANGED <<content, categories, categories_to_test, exception, aggVars>>

\* votes[category] = v: the value of an existing key is replaced in place.
dict_set(d, category, v) ==
    LET entry == [category |-> category, vote |-> v.vote,
                  confidence |-> v.confidence, risk_score |-> v.risk_score]
    IN  IF \E k \in DOMAIN d : d[k].category = category
        THEN [k \in DOMAIN d |-> IF d[k].category = category THEN entry ELSE d[k]]
        ELSE Append(d, entry)

\* One turn of "for future in as_completed(future_to_category)": future j
\* is done; votes[category] = future.result(timeout=30), or the fallback
\* when that raises.  When every future has been taken the loop is over.
as_completed_next ==
    /\ agg_pc = "as_completed"
    /\ IF \A j \in DOMAIN future_to_category : future_to_category[j].collected
       THEN /\ agg_pc' = "shutdown"
            /\ UNCHANGED <<future_to_category, votes>>
       ELSE \E j \in DOMAIN future_to_category :
                /\ ~future_to_category[j].collected
                /\ future_to_category[j].state \in {"returned", "raised"}
                /\ votes' = dict_set(votes, future_to_category[j].category,
                        IF future_to_category[j].state = "returned"
                        THEN future_to_category[j].analysis
                        ELSE fan_in_fallback)
                /\ future_to_category' =
                        [future_to_category EXCEPT ![j].collected = TRUE]
                /\ UNCHANGED agg_pc
    /\ UNCHANGED <<content, categories, categories_to_test, exception,
                   member_votes, result>>

\* The end of the with block, executor.shutdown(wait=True), returns when no
\* evaluator is running; then the KeyError leaves verify, or verify
\* returns self._aggregate_votes(votes).
verify_leaves ==
    /\ agg_pc = "shutdown"
    /\ \A j \in DOMAIN future_to_category : future_to_category[j].state # "running"
    /\ IF exception # None
       THEN agg_pc' = "raised" /\ UNCHANGED result
       ELSE agg_pc' = "returned" /\ result' = aggregate_votes(votes)
    /\ UNCHANGED <<callVars, member_votes, votes>>

(***************************************************************************)
(* TC260Engine (src/tc260/engine.py), built with the default               *)
(* parallel_processing=True and a configuration that enables the ids of    *)
(* EngineModules.  A call is one step: the caller thread alone appends to  *)
(* assessments, and the list is sorted before it is used.                  *)
(***************************************************************************)
\* list(self.modules.keys()): the ids with a loaded module, in id order.
EngineModules == <<"TC260-01", "TC260-02">>

\* self.config.default_threshold, the threshold of every module
default_threshold == 70

\* request.threshold
RequestThresholds == {70, 90}

\* What a module's analyze does for the request: it returns an assessment
\* with a risk score of 20 or of 80, at once or after more than
\* timeout_seconds, or it raises.
ModuleOutcomes == {"risk_20", "risk_80", "risk_20_slow", "raises"}

\* request.categories: None, or <<l>> for a list l of at most two
\* different ids.
EngineCategoryLists ==
    {None}
    \cup {<<l>> : l \in
            {<<>>}
            \cup {<<c>> : c \in {"TC260-01", "TC260-02", UnknownId}}
            \cup {<<"TC260-01", "TC260-02">>, <<"TC260-02", "TC260-01">>,
                  <<"TC260-01", UnknownId>>, <<UnknownId, "TC260-02">>}}

EngineRequests ==
    [categories : EngineCategoryLists, threshold : RequestThresholds,
     outcome : [{EngineModules[i] : i \in DOMAIN EngineModules} -> ModuleOutcomes]]

VARIABLES
    engine_request,  \* the request of the last engine.verify call
    report           \* the VerificationReport it returned

engineVars == <<engine_request, report>>

InitEngineIdle ==
    /\ engine_request = None
    /\ report = None

\* x < y for two category ids: the order of the strings is the order of
\* the ids in EngineModules.
id_less(x, y) ==
    \E i, j \in DOMAIN EngineModules :
        EngineModules[i] = x /\ EngineModules[j] = y /\ i < j

\* BaseTC260Module._create_assessment: passed = risk_score < self.threshold
create_assessment(category_id, risk_score) ==
    [category_id |-> category_id, risk_score |-> float_of_int(risk_score),
     passed |-> risk_score < default_threshold]

\* The assessments _verify_parallel returns: a future is submitted for
\* every id of the list that has a module, the result of a future that
\* raised is dropped, the rest is sorted by category_id.  as_completed
\* yields finished futures only, so future.result(timeout=...) never times
\* out and the assessment of a slow module is kept.
RECURSIVE verify_parallel(_, _)
verify_parallel(ids, outcome) ==
    IF ids = <<>> THEN <<>>
    ELSE LET cat == Head(ids)
             rest == verify_parallel(Tail(ids), outcome)
             here == IF cat \in {c \in DOMAIN outcome : outcome[c] # "raises"}
                     THEN <<create_assessment(cat,
                                IF outcome[cat] = "risk_80" THEN 80 ELSE 20)>>
                     ELSE <<>>
             before(a) == id_less(a.category_id, cat)
             after(a) == ~id_less(a.category_id, cat)
         IN  SelectSeq(rest, before) \o here \o SelectSeq(rest, after)

\* The VerificationReport verify builds from the assessments.
build_report(assessments, threshold) ==
    LET n == Len(assessments)
        count(P(_)) == Cardinality({i \in DOMAIN assessments : P(assessments[i])})
        is_passed(a) == a.passed
        is_failed(a) == ~a.passed /\ a.risk_score >= float_of_int(threshold)
        is_warning(a) == ~a.passed /\ a.risk_score < float_of_int(threshold)
        categories_failed == count(is_failed)
        categories_warning == count(is_warning)
    IN  [overall_score |->
            IF n = 0 THEN 0
            ELSE float_div_int(
                    py_sum([i \in DOMAIN assessments |-> assessments[i].risk_score], 0),
                    n),
         overall_status |->
            IF categories_failed > 0 THEN "FAIL"
            ELSE IF categories_warning > 0 THEN "WARNING"
            ELSE "PASS",
         categories_tested |-> n,
         categories_passed |-> count(is_passed),
         categories_failed |-> categories_failed,
         categories_warning |-> categories_warning,
         risk_assessments |-> assessments]

\* request.categories or list(self.modules.keys())
engine_categories_to_test(request) ==
    IF request.categories = None THEN EngineModules
    ELSE IF request.categories[1] = <<>> THEN EngineModules
    ELSE request.categories[1]

\* TC260Engine.verify
engine_verify(request) ==
    /\ engine_request' = <<request>>
    /\ report' = <<build_report(
                        verify_parallel(engine_categories_to_test(request),
                                        request.outcome),
                        request.threshold)>>

(***************************************************************************)
(* rate_limit_middleware (src/backend/middleware/rate_limiting.py), with   *)
(* settings.enable_rate_limiting = True, for the requests of one client    *)
(* IP.  The server processes share the Redis counter; a handler's steps    *)
(* are its two Redis round trips and the call of the downstream handler.   *)
(***************************************************************************)
\* settings.rate_limit_per_minute
rate_limit_per_minute == 100

\* Requests in flight at the same time.
Handlers == {"h1", "h2"}

\* Requests received while the key is live, past the limit by this many.
MaxOverLimit == 3

VARIABLES
    redis_count,    \* the value of key rate_limit:<ip>, None when the key is absent
    rl_pc,          \* where each handler is in the middleware
    current_count,  \* each handler's local of that name
    forwarded,      \* requests passed to call_next since the key was created
    rejected        \* requests answered 429 since the key was created

limiterVars == <<redis_count, rl_pc, current_count, forwarded, rejected>>

InitLimiter ==
    /\ redis_count = None
    /\ rl_pc = [h \in Handlers |-> "idle"]
    /\ current_count = [h \in Handlers |-> None]
    /\ forwarded = 0
    /\ rejected = 0

\* A request arrives: current_count = redis_client.get(key)
redis_get(h) ==
    /\ rl_pc[h] = "idle"
    /\ forwarded + rejected + Cardinality({g \in Handlers : rl_pc[g] # "idle"})
            < rate_limit_per_minute + MaxOverLimit
    /\ current_count' = [current_count EXCEPT ![h] = redis_count]
    /\ rl_pc' = [rl_pc EXCEPT ![h] = "try"]
    /\ UNCHANGED <<redis_count, forwarded, rejected>>

\* The rest of the try block.  At or above the limit HTTPException(429) is
\* raised inside the try; "except Exception" catches it, logs it, and the
\* handler goes on to call_next.  Below the limit the pipeline runs INCR
\* and EXPIRE.
check_and_incr(h) ==
    /\ rl_pc[h] = "try"
    /\ IF current_count[h] # None /\ current_count[h][1] >= rate_limit_per_minute
       THEN UNCHANGED redis_count
       ELSE redis_count' = IF redis_count = None THEN <<1>>
                           ELSE <<redis_count[1] + 1>>
    /\ rl_pc' = [rl_pc EXCEPT ![h] = "call_next"]
    /\ UNCHANGED <<current_count, forwarded, rejected>>

\* response = await call_next(request); return response
call_next(h) ==
    /\ rl_pc[h] = "call_next"
    /\ forwarded' = forwarded + 1
    /\ rl_pc' = [rl_pc EXCEPT ![h] = "idle"]
    /\ current_count' = [current_count EXCEPT ![h] = None]
    /\ UNCHANGED <<redis_count, rejected>>

\* Sixty seconds have passed since the last EXPIRE: Redis deletes the key.
\* No request is in the middleware at that moment.
key_expires ==
    /\ redis_count # None
    /\ \A h \in Handlers : rl_pc[h] = "idle"
    /\ redis_count' = None
    /\ forwarded' = 0
    /\ rejected' = 0
    /\ UNCHANGED <<rl_pc, current_count>>

(***************************************************************************)
(* PDCACycle (src/tc260/pdca.py).  datetime.utcnow() is the clock          *)
(* pdca_clock, in milliseconds; time passes between calls, or not.  A      *)
(* cycle id "pdca_<ms>" and an action id "act_<ms>" are modelled by <ms>.  *)
(***************************************************************************)
\* Calls made on the PDCACycle object.
MaxPdcaCalls == 4

\* The last millisecond of the clock.
MaxPdcaTime == 1

PdcaTimes == 0 .. MaxPdcaTime

\* project_name of create_cycle
ProjectNames == {"p1", "p2"}

\* The order of the phases.
PhaseRank(phase) ==
    CASE phase = "PLAN" -> 1 [] phase = "DO" -> 2
      [] phase = "CHECK" -> 3 [] phase = "ACT" -> 4

VARIABLES
    cycles,      \* self.cycles: cycle id -> cycle
    pdca_clock,  \* the clock
    pdca_calls,  \* calls made so far
    pdca_last    \* the last call and what it returned or raised

pdcaVars == <<cycles, pdca_clock, pdca_calls, pdca_last>>

InitPdca ==
    /\ cycles = <<>>
    /\ pdca_clock = 0
    /\ pdca_calls = 0
    /\ pdca_last = [op |-> "init", cycle_id |-> None, ret |-> "None"]

\* Time passes.
pdca_tick ==
    /\ pdca_clock < MaxPdcaTime
    /\ pdca_clock' = pdca_clock + 1
    /\ UNCHANGED <<cycles, pdca_calls, pdca_last>>

\* The cycle dict create_cycle builds.
new_cycle(cycle_id, user_id, project_name, now) ==
    [cycle_id |-> cycle_id, user_id |-> user_id, project_name |-> project_name,
     phase |-> "PLAN", created_at |-> now, updated_at |-> now,
     plan |-> [objectives |-> <<>>, policies |-> <<>>],
     do |-> [verifications |-> <<>>, total_verifications |-> 0],
     check |-> [reviews |-> <<>>, accuracy |-> 0, issues_found |-> 0],
     act |-> [actions |-> <<>>],
     status |-> "IN_PROGRESS"]

\* self.cycles[cycle_id] = cycle
store(cs, cycle_id, cycle) ==
    [id \in DOMAIN cs \cup {cycle_id} |-> IF id = cycle_id THEN cycle ELSE cs[id]]

\* A call counts, and leaves its name and its outcome.
pdca_called(op, cycle_id, ret) ==
    /\ pdca_calls < MaxPdcaCalls
    /\ pdca_calls' = pdca_calls + 1
    /\ pdca_last' = [op |-> op, cycle_id |-> <<cycle_id>>, ret |-> ret]
    /\ UNCHANGED pdca_clock

\* PDCACycle.create_cycle
create_cycle(user_id, project_name) ==
    /\ pdca_called("create_cycle", pdca_clock, "cycle")
    /\ cycles' = store(cycles, pdca_clock,
                       new_cycle(pdca_clock, user_id, project_name, pdca_clock))

\* "if not cycle: raise ValueError"
cycle_not_found(op, cycle_id) ==
    /\ cycle_id \notin DOMAIN cycles
    /\ pdca_called(op, cycle_id, "ValueError")
    /\ UNCHANGED cycles

\* PDCACycle.add_objective
add_objective(cycle_id, objective) ==
    \/ cycle_not_found("add_objective", cycle_id)
    \/ /\ cycle_id \in DOMAIN cycles
       /\ pdca_called("add_objective", cycle_id, "cycle")
       /\ cycles' = [cycles EXCEPT
                ![cycle_id].plan.objectives =
                    Append(@, [objective |-> objective, added_at |-> pdca_clock]),
                ![cycle_id].updated_at = pdca_clock]

\* PDCACycle.add_policy
add_policy(cycle_id, policy) ==
    \/ cycle_not_found("add_policy", cycle_id)
    \/ /\ cycle_id \in DOMAIN cycles
       /\ pdca_called("add_policy", cycle_id, "cycle")
       /\ cycles' = [cycles EXCEPT
                ![cycle_id].plan.policies =
                    Append(@, [policy |-> policy, added_at |-> pdca_clock]),
                ![cycle_id].updated_at = pdca_clock]

\* PDCACycle.execute_verification
execute_verification(cycle_id, verification_id, overall_vote) ==
    \/ cycle_not_found("execute_verification", cycle_id)
    \/ /\ cycle_id \in DOMAIN cycles
       /\ pdca_called("execute_verification", cycle_id, "cycle")
       /\ cycles' = [cycles EXCEPT
                ![cycle_id].phase = IF @ = "PLAN" THEN "DO" ELSE @,
                ![cycle_id].do.verifications =
                    Append(@, [verification_id |-> verification_id,
                               timestamp |-> pdca_clock,
                               overall_vote |-> overall_vote,
                               passed |-> overall_vote = "PASS"]),
                ![cycle_id].do.total_verifications = @ + 1,
                ![cycle_id].updated_at = pdca_clock]

\* The reviews, accuracy and issues_found after add_review.
reviewed(check, reviewer_id, verification_id, is_accurate, now) ==
    LET reviews == Append(check.reviews,
                        [reviewer_id |-> reviewer_id,
                         verification_id |-> verification_id,
                         is_accurate |-> is_accurate, timestamp |-> now])
        accurate_reviews == Cardinality({i \in DOMAIN reviews : reviews[i].is_accurate})
    IN  [reviews |-> reviews,
         accuracy |-> Round(accurate_reviews * Unit, Len(reviews)),
         issues_found |-> IF is_accurate THEN check.issues_found
                          ELSE check.issues_found + 1]

\* An add_review that sets the phase to CHECK whatever it was.
add_review_always_check(cycle_id, reviewer_id, verification_id, is_accurate) ==
    \/ cycle_not_found("add_review", cycle_id)
    \/ /\ cycle_id \in DOMAIN cycles
       /\ pdca_called("add_review", cycle_id, "cycle")
       /\ cycles' = [cycles EXCEPT
                ![cycle_id].phase = "CHECK",
                ![cycle_id].check = reviewed(@, reviewer_id, verification_id,
                                             is_accurate, pdca_clock),
                ![cycle_id].updated_at = pdca_clock]

\* PDCACycle.add_review
add_review(cycle_id, reviewer_id, verification_id, is_accurate) ==
    \/ cycle_not_found("add_review", cycle_id)
    \/ /\ cycle_id \in DOMAIN cycles
       /\ pdca_called("add_review", cycle_id, "cycle")
       /\ cycles' = [cycles EXCEPT
                ![cycle_id].phase = IF @ \in {"PLAN", "DO"} THEN "CHECK" ELSE @,
                ![cycle_id].check = reviewed(@, reviewer_id, verification_id,
                                             is_accurate, pdca_clock),
                ![cycle_id].updated_at = pdca_clock]

\* PDCACycle.add_action
add_action(cycle_id, action_type) ==
    \/ cycle_not_found("add_action", cycle_id)
    \/ /\ cycle_id \in DOMAIN cycles
       /\ pdca_called("add_action", cycle_id, "cycle")
       /\ cycles' = [cycles EXCEPT
                ![cycle_id].phase = "ACT",
                ![cycle_id].act.actions =
                    Append(@, [action_id |-> pdca_clock,
                               action_type |-> action_type,
                               status |-> "PENDING",
                               created_at |-> pdca_clock,
                               completed_at |-> None]),
                ![cycle_id].updated_at = pdca_clock]

\* The loop of complete_action: the first action with the id is completed.
complete_first(actions, action_id, now) ==
    IF \E i \in DOMAIN actions : actions[i].action_id = action_id
    THEN LET k == CHOOSE i \in DOMAIN actions :
                    /\ actions[i].action_id = action_id
                    /\ \A j \in 1 .. (i - 1) : actions[j].action_id # action_id
         IN  [actions EXCEPT ![k].status = "COMPLETED",
                             ![k].completed_at = <<now>>]
    ELSE actions

\* PDCACycle.complete_action
complete_action(cycle_id, action_id) ==
    \/ cycle_not_found("complete_action", cycle_id)
    \/ /\ cycle_id \in DOMAIN cycles
       /\ pdca_called("complete_action", cycle_id, "cycle")
       /\ LET actions == complete_first(cycles[cycle_id].act.actions,
                                        action_id, pdca_clock)
              all_completed == \A i \in DOMAIN actions :
                                    actions[i].status = "COMPLETED"
          IN  cycles' = [cycles EXCEPT
                ![cycle_id].act.actions = actions,
                ![cycle_id].updated_at = pdca_clock,
                ![cycle_id].status =
                    IF all_completed /\ actions # <<>> THEN "COMPLETED" ELSE @]

\* The groups of variables of the parts that follow the council.
extVars == <<engineVars, limiterVars, pdcaVars>>

InitExtIdle == InitEngineIdle /\ InitLimiter /\ InitPdca

vars == <<chain, heap, pending_verifications, clock, lastCall,
          tasks, pc, new_block, requests, submitted,
          member_votes, votes, result, agg_pc,
          content, categories, categories_to_test, future_to_category,
          exception, feedback_log, training_jobs, responses,
          engine_request, report,
          redis_count, rl_pc, current_count, forwarded, rejected,
          cycles, pdca_clock, pdca_calls, pdca_last>>

(***************************************************************************)
(* Spec: the ledger's methods called one at a time.                        *)
(***************************************************************************)
Init == InitLedger /\ InitConc /\ InitAggIdle /\ InitCallIdle /\ InitExtIdle

Next ==
    \/ \E vid \in VerificationIds :
            add_verification(vid, Requester(vid)) /\ UNCHANGED <<concVars, aggVars, callVars, rlmaiVars, extVars>>
    \/ \E ts \in TimeValues :
            mine_pending_verifications(ts) /\ UNCHANGED <<concVars, aggVars, callVars, rlmaiVars, extVars>>
    \/ \E fid \in FeedbackIds, vid \in VerificationIds, ftype \in FeedbackTypes,
          uid \in UserIds, ts \in TimeValues :
            add_feedback(fid, vid, ftype, uid, ts) /\ UNCHANGED <<concVars, aggVars, callVars, rlmaiVars, extVars>>
    \/ export_chain /\ UNCHANGED <<concVars, aggVars, callVars, rlmaiVars, extVars>>

Spec == Init /\ [][Next]_vars

(***************************************************************************)
(* SpecIndex: the ledger's methods called one at a time, the two lookups   *)
(* among them.                                                             *)
(***************************************************************************)
NextIndex ==
    \/ \E vid \in VerificationIds :
            add_verification(vid, Requester(vid)) /\ UNCHANGED <<concVars, aggVars, callVars, rlmaiVars, extVars>>
    \/ \E ts \in TimeValues :
            mine_pending_verifications(ts) /\ UNCHANGED <<concVars, aggVars, callVars, rlmaiVars, extVars>>
    \/ \E fid \in FeedbackIds, vid \in VerificationIds, ftype \in FeedbackTypes,
          uid \in UserIds, ts \in TimeValues :
            add_feedback(fid, vid, ftype, uid, ts) /\ UNCHANGED <<concVars, aggVars, callVars, rlmaiVars, extVars>>
    \/ \E vid \in VerificationIds :
            get_verification_history(vid) /\ UNCHANGED <<concVars, aggVars, callVars, rlmaiVars, extVars>>
    \/ \E uid \in UserIds :
            get_user_verifications(uid) /\ UNCHANGED <<concVars, aggVars, callVars, rlmaiVars, extVars>>

SpecIndex == Init /\ [][NextIndex]_vars

(***************************************************************************)
(* SpecConc: requests arrive on the event loop while the pool threads run  *)
(* the background tasks.                                                   *)
(***************************************************************************)
NextConc ==
    \/ \E vid \in VerificationIds :
            verify_content(vid, Requester(vid)) /\ UNCHANGED <<aggVars, callVars, rlmaiVars, extVars>>
    \/ \E fid \in FeedbackIds, vid \in VerificationIds, ftype \in FeedbackTypes,
          uid \in UserIds, cat \in FeedbackCategories :
            submit_feedback(fid, vid, cat, ftype, uid) /\ UNCHANGED <<aggVars, callVars, extVars>>
    \/ \E t \in Workers, ts \in TimeValues : mine_begin(t, ts) /\ UNCHANGED <<aggVars, callVars, rlmaiVars, extVars>>
    \/ \E t \in Workers, ts \in TimeValues : feedback_begin(t, ts) /\ UNCHANGED <<aggVars, callVars, rlmaiVars, extVars>>
    \/ \E t \in Workers : mine_iteration(t) /\ UNCHANGED <<aggVars, callVars, rlmaiVars, extVars>>
    \/ \E t \in Workers : append_block(t) /\ UNCHANGED <<aggVars, callVars, rlmaiVars, extVars>>
    \/ \E t \in Workers : clear_pending(t) /\ UNCHANGED <<aggVars, callVars, rlmaiVars, extVars>>

SpecConc == Init /\ [][NextConc]_vars

\* A step of a pool thread.
PoolStep ==
    /\ \/ \E t \in Workers, ts \in TimeValues : mine_begin(t, ts)
       \/ \E t \in Workers, ts \in TimeValues : feedback_begin(t, ts)
       \/ \E t \in Workers : mine_iteration(t)
       \/ \E t \in Workers : append_block(t)
       \/ \E t \in Workers : clear_pending(t)
    /\ UNCHANGED <<aggVars, callVars, rlmaiVars, extVars>>

\* SpecConcFair: the pool runs every task that was added and a running
\* task keeps going.
SpecConcFair == SpecConc /\ WF_vars(PoolStep)

(***************************************************************************)
(* SpecAgg: one verify call of the council.                                *)
(***************************************************************************)
InitAgg == InitLedger /\ InitConc /\ InitVerify /\ InitCallIdle /\ InitExtIdle

NextAgg ==
    \/ \E c \in Categories : collect_vote(c) /\ UNCHANGED <<ledgerVars, concVars, callVars, rlmaiVars, extVars>>
    \/ aggregate /\ UNCHANGED <<ledgerVars, concVars, callVars, rlmaiVars, extVars>>

SpecAgg == InitAgg /\ [][NextAgg]_vars

(***************************************************************************)
(* SpecReduce: _aggregate_votes called on a votes dict of 0 to MaxVotes    *)
(* entries.                                                                *)
(***************************************************************************)
MaxVotes == 4

\* The first ids of RISK_CATEGORIES, in the order of the dict.
RISK_CATEGORY_IDS ==
    <<"TC260-01", "TC260-02", "TC260-03", "TC260-04",
      "TC260-05", "TC260-06", "TC260-07", "TC260-08">>

\* The analyses the votes of the dict are drawn from: every verdict with a
\* confidence of 0, 0.3 or 0.6.
ReduceAnalyses ==
    {[vote |-> v, confidence |-> float_of_decimal(x),
      risk_score |-> float_of_int(IF v = "PASS" THEN 20 ELSE 90)] :
        v \in VoteValues, x \in {0, 30, 60}}

InitReduce ==
    /\ InitLedger /\ InitConc /\ InitCallIdle /\ InitExtIdle
    /\ member_votes = [c \in Categories |->
            [vote |-> "WARNING", confidence |-> 0, risk_score |-> 0]]
    /\ votes = <<>>
    /\ result = None
    /\ agg_pc = "call"

\* The caller fills the dict: votes[category] = analysis, for the next
\* category id.
put_vote(a) ==
    /\ agg_pc = "call"
    /\ Len(votes) < MaxVotes
    /\ votes' = Append(votes,
            [category |-> RISK_CATEGORY_IDS[Len(votes) + 1], vote |-> a.vote,
             confidence |-> a.confidence, risk_score |-> a.risk_score])
    /\ UNCHANGED <<member_votes, result, agg_pc>>

\* result = self._aggregate_votes(votes)
reduce ==
    /\ agg_pc = "call"
    /\ result' = aggregate_votes(votes)
    /\ agg_pc' = "done"
    /\ UNCHANGED <<member_votes, votes>>

NextReduce ==
    \/ \E a \in ReduceAnalyses : put_vote(a) /\ UNCHANGED <<ledgerVars, concVars, callVars, rlmaiVars, extVars>>
    \/ reduce /\ UNCHANGED <<ledgerVars, concVars, callVars, rlmaiVars, extVars>>

SpecReduce == InitReduce /\ [][NextReduce]_vars

(***************************************************************************)
(* SpecVerify: one call of CouncilOf32.verify.  SpecVerifyFair adds that   *)
(* the caller, the pool threads and the clock keep going.                  *)
(***************************************************************************)
InitVerifyCall == InitLedger /\ InitConc /\ InitCall /\ InitExtIdle

NextVerify ==
    \/ verify_enter /\ UNCHANGED <<ledgerVars, concVars, rlmaiVars, extVars>>
    \/ submit_next /\ UNCHANGED <<ledgerVars, concVars, rlmaiVars, extVars>>
    \/ \E j \in 1 .. Len(AllCategories) :
            thirty_seconds_pass(j) /\ UNCHANGED <<ledgerVars, concVars, rlmaiVars, extVars>>
    \/ \E j \in 1 .. Len(AllCategories) :
            analyze_ends(j) /\ UNCHANGED <<ledgerVars, concVars, rlmaiVars, extVars>>
    \/ as_completed_next /\ UNCHANGED <<ledgerVars, concVars, rlmaiVars, extVars>>
    \/ verify_leaves /\ UNCHANGED <<ledgerVars, concVars, rlmaiVars, extVars>>

SpecVerify == InitVerifyCall /\ [][NextVerify]_vars

SpecVerifyFair == SpecVerify /\ WF_vars(NextVerify)

(***************************************************************************)
(* SpecStats: RLMAISystem.submit_feedback called up to MaxFeedback times   *)
(* on a new system, for two categories and four kinds of feedback.         *)
(* SpecRetrain: the same calls on a system whose log already holds         *)
(* improvement_threshold - 2 records of one category.                      *)
(***************************************************************************)
MaxFeedback == 5

\* The category_id and feedback_type values of the calls.
StatCategories == {"TC260-01", "TC260-02"}
StatFeedbackTypes == {"CORRECT", "INCORRECT", "FALSE_POSITIVE", "FALSE_NEGATIVE"}

\* The corrected_vote of a call: absent, or a corrected label.
CorrectedVotes == {None, <<"FAIL">>}

\* rlmai.submit_feedback(verification_id, category_id, feedback_type,
\* user_id, corrected_vote=...)
record_feedback_call(cat, ftype, corrected_vote) ==
    /\ Len(responses) < MaxFeedback
    /\ rlmai_submit_feedback(
            Feedback("fb_1", "ver_1", cat, ftype, "u1", corrected_vote))

InitStats ==
    /\ InitLedger /\ InitConc /\ InitAggIdle /\ InitCallIdle /\ InitExtIdle

NextStats ==
    \E cat \in StatCategories, ftype \in StatFeedbackTypes :
        /\ record_feedback_call(cat, ftype, None)
        /\ UNCHANGED <<ledgerVars, concVars, aggVars, callVars, extVars>>

SpecStats == InitStats /\ [][NextStats]_vars

\* The log after improvement_threshold - 2 calls for TC260-01, all of them
\* with a corrected vote or all of them without.
Backlog(corrected_vote) ==
    [i \in 1 .. (improvement_threshold - 2) |->
        Feedback("fb_1", "ver_1", "TC260-01", "CORRECT", "u1", corrected_vote)]

InitRetrain ==
    /\ InitLedger /\ InitPool /\ InitAggIdle /\ InitCallIdle /\ InitExtIdle
    /\ \E corrected_vote \in CorrectedVotes :
            feedback_log = Backlog(corrected_vote)
    /\ training_jobs = <<>>
    /\ responses = <<>>

NextRetrain ==
    \E cat \in StatCategories, corrected_vote \in CorrectedVotes :
        /\ record_feedback_call(cat, "CORRECT", corrected_vote)
        /\ UNCHANGED <<ledgerVars, concVars, aggVars, callVars, extVars>>

SpecRetrain == InitRetrain /\ [][NextRetrain]_vars

(***************************************************************************)
(* SpecEngine: calls of TC260Engine.verify.                                *)
(***************************************************************************)
InitEngine ==
    /\ InitLedger /\ InitConc /\ InitAggIdle /\ InitCallIdle
    /\ InitExtIdle

NextEngine ==
    \E request \in EngineRequests :
        /\ engine_verify(request)
        /\ UNCHANGED <<ledgerVars, concVars, aggVars, callVars, rlmaiVars,
                       limiterVars, pdcaVars>>

SpecEngine == InitEngine /\ [][NextEngine]_vars

(***************************************************************************)
(* SpecLimiter: requests of one client IP going through the middleware.    *)
(***************************************************************************)
NextLimiter ==
    \/ \E h \in Handlers : redis_get(h)
            /\ UNCHANGED <<ledgerVars, concVars, aggVars, callVars, rlmaiVars, engineVars, pdcaVars>>
    \/ \E h \in Handlers : check_and_incr(h)
            /\ UNCHANGED <<ledgerVars, concVars, aggVars, callVars, rlmaiVars, engineVars, pdcaVars>>
    \/ \E h \in Handlers : call_next(h)
            /\ UNCHANGED <<ledgerVars, concVars, aggVars, callVars, rlmaiVars, engineVars, pdcaVars>>
    \/ key_expires
            /\ UNCHANGED <<ledgerVars, concVars, aggVars, callVars, rlmaiVars, engineVars, pdcaVars>>

SpecLimiter == Init /\ [][NextLimiter]_vars

(***************************************************************************)
(* SpecPdca: calls on one PDCACycle object, one at a time.                 *)
(***************************************************************************)
NextPdca ==
    \/ pdca_tick /\ UNCHANGED <<ledgerVars, concVars, aggVars, callVars, rlmaiVars, engineVars, limiterVars>>
    \/ \E project_name \in ProjectNames :
            create_cycle("u1", project_name) /\ UNCHANGED <<ledgerVars, concVars, aggVars, callVars, rlmaiVars, engineVars, limiterVars>>
    \/ \E cycle_id \in PdcaTimes : add_objective(cycle_id, "objective") /\ UNCHANGED <<ledgerVars, concVars, aggVars, callVars, rlmaiVars, engineVars, limiterVars>>
    \/ \E cycle_id \in PdcaTimes : add_policy(cycle_id, "policy") /\ UNCHANGED <<ledgerVars, concVars, aggVars, callVars, rlmaiVars, engineVars, limiterVars>>
    \/ \E cycle_id \in PdcaTimes :
            execute_verification(cycle_id, "ver_1", "PASS") /\ UNCHANGED <<ledgerVars, concVars, aggVars, callVars, rlmaiVars, engineVars, limiterVars>>
    \/ \E cycle_id \in PdcaTimes, is_accurate \in BOOLEAN :
            add_review(cycle_id, "u2", "ver_1", is_accurate) /\ UNCHANGED <<ledgerVars, concVars, aggVars, callVars, rlmaiVars, engineVars, limiterVars>>
    \/ \E cycle_id \in PdcaTimes : add_action(cycle_id, "CORRECTIVE") /\ UNCHANGED <<ledgerVars, concVars, aggVars, callVars, rlmaiVars, engineVars, limiterVars>>
    \/ \E cycle_id \in PdcaTimes, action_id \in PdcaTimes :
            complete_action(cycle_id, action_id) /\ UNCHANGED <<ledgerVars, concVars, aggVars, callVars, rlmaiVars, engineVars, limiterVars>>

SpecPdca == Init /\ [][NextPdca]_vars

(***************************************************************************)
(* Tampering with a stored chain: the three changes the integrity check    *)
(* is meant to detect.                                                     *)
(***************************************************************************)
Records == {VerificationRecord(vid, uid) : vid \in VerificationIds, uid \in UserIds}

FeedbackRecords ==
    {FeedbackRecord(fid, vid, ft, uid) :
        fid \in FeedbackIds, vid \in VerificationIds,
        ft \in FeedbackTypes \cup {"INCORRECT"}, uid \in UserIds}

\* Payloads the stored payload k of an entry may be overwritten with: another
\* marker, a feedback record, or a list of summaries with a record removed,
\* added or replaced, or with another count.
AltContents(k) ==
    {[type |-> "GENESIS", created_at |-> t] : t \in 0 .. 2}
    \cup {[type |-> "FEEDBACK", feedback |-> f] : f \in FeedbackRecords}
    \cup (IF k.type # "VERIFICATIONS"
          THEN {[type |-> "VERIFICATIONS", verifications |-> <<r>>, count |-> 1] :
                    r \in Records}
          ELSE {[k EXCEPT !.count = n] : n \in {k.count - 1, k.count + 1}}
               \cup {[k EXCEPT !.verifications = SubSeq(@, 1, Len(@) - 1)]}
               \cup {[k EXCEPT !.verifications = Append(@, r)] : r \in Records}
               \cup {[k EXCEPT !.verifications[j] = r] :
                        j \in 1 .. Len(k.verifications), r \in Records})

\* The chain and heap after entry i's payload is overwritten with content k.
WithContent(c, h, i, k) ==
    IF k.type = "VERIFICATIONS"
    THEN [chain |-> [c EXCEPT ![i].data =
                        [type |-> k.type, verifications |-> Len(h) + 1,
                         count |-> k.count]],
          heap |-> Append(h, k.verifications)]
    ELSE [chain |-> [c EXCEPT ![i].data = k], heap |-> h]

\* Hashes an entry's stored hash may be overwritten with.
AltHashes(c, h) ==
    {ZeroHash, [digits |-> [k \in 1 .. Difficulty |-> 0], pre |-> <<>>]}
    \cup {c[j].hash : j \in 1 .. Len(c)}
    \cup {mine_step(c[Len(c)], h).hash}

WithHash(c, i, x) == [c EXCEPT ![i].hash = x]

Swapped(c, i, j) == [c EXCEPT ![i] = c[j], ![j] = c[i]]

PayloadChangeDetected(i) ==
    LET stored == Content(chain[i].data, heap)
    IN  \A k \in AltContents(stored) \ {stored} :
            LET t == WithContent(chain, heap, i, k)
            IN  ~is_chain_valid(t.chain, t.heap, Difficulty)

HashChangeDetected(i) ==
    \A x \in AltHashes(chain, heap) \ {chain[i].hash} :
        ~is_chain_valid(WithHash(chain, i, x), heap, Difficulty)

SwapDetected ==
    \A i \in 1 .. Len(chain), j \in 1 .. Len(chain) :
        i < j => ~is_chain_valid(Swapped(chain, i, j), heap, Difficulty)

(***************************************************************************)
(* Claims checked under Spec: the ledger's methods called one at a time.   *)
(***************************************************************************)

\* C1: after any finite sequence of add_verification,
\* mine_pending_verifications and add_feedback calls executed one at a time
\* on a fresh ledger, is_chain_valid returns true.
C1_ChainValidAfterSerialCalls ==
    is_chain_valid(chain, heap, Difficulty)

C1_Witness ==
    /\ Len(chain) >= 3
    /\ \E i \in 1 .. Len(chain) : chain[i].data.type = "VERIFICATIONS"
    /\ \E i \in 1 .. Len(chain) : chain[i].data.type = "FEEDBACK"
    /\ heap[pending_verifications] # <<>>
    /\ is_chain_valid(chain, heap, Difficulty)

C6_SealAppendsTheBatch ==
    [][(lastCall'.op = "mine_pending_verifications"
          /\ heap[pending_verifications] # <<>>)
        => /\ Len(chain') = Len(chain) + 1
           /\ SubSeq(chain', 1, Len(chain)) = chain
           /\ \A i \in 1 .. Len(chain) :
                 Content(chain'[i].data, heap') = Content(chain[i].data, heap)
           /\ LET e == chain'[Len(chain')]
              IN  /\ e.index = Len(chain)
                  /\ e.previous_hash = chain[Len(chain)].hash
                  /\ e.data.type = "VERIFICATIONS"
                  /\ heap'[e.data.verifications] = heap[pending_verifications]
                  /\ e.data.count = Len(heap[pending_verifications])
                  /\ lastCall'.ret = <<e>>
           /\ heap'[pending_verifications'] = <<>>]_vars

C6_Witness ==
    /\ lastCall.op = "mine_pending_verifications"
    /\ lastCall.ret # None
    /\ Len(chain) = 3
    /\ chain[3].data.type = "VERIFICATIONS"
    /\ chain[3].data.count = 2
    /\ heap[pending_verifications] = <<>>

\* C7: mine_pending_verifications with an empty pending batch returns
\* None and leaves the chain and the pending batch unchanged.
C7_SealOfEmptyBatchIsNoOp ==
    [][(lastCall'.op = "mine_pending_verifications"
          /\ heap[pending_verifications] = <<>>)
        => /\ lastCall'.ret = None
           /\ chain' = chain
           /\ heap' = heap
           /\ pending_verifications' = pending_verifications]_vars

C7_Witness ==
    /\ lastCall.op = "mine_pending_verifications"
    /\ lastCall.ret = None
    /\ Len(chain) >= 2
    /\ heap[pending_verifications] = <<>>

\* C8: add_feedback seals within the call and without batching: the chain
\* is one entry longer, the new last entry is mined and carries that single
\* feedback record, and the pending batch is unchanged.
C8_FeedbackSealedAlone ==
    [][lastCall'.op = "add_feedback"
        => /\ Len(chain') = Len(chain) + 1
           /\ SubSeq(chain', 1, Len(chain)) = chain
           /\ LET e == chain'[Len(chain')]
              IN  /\ e.data = [type |-> "FEEDBACK", feedback |-> lastCall'.args[1]]
                  /\ e.hash = calculate_hash(e, heap')
                  /\ HasLeadingZeros(e.hash, Difficulty)
                  /\ lastCall'.ret = <<e>>
           /\ pending_verifications' = pending_verifications
           /\ heap' = heap]_vars

C8_Witness ==
    /\ lastCall.op = "add_feedback"
    /\ chain[Len(chain)].data.type = "FEEDBACK"
    /\ Len(heap[pending_verifications]) = 2

\* C9: export_chain changes neither the chain nor the pending batch,
\* returns the entries in chain order, and returns the same sequence when
\* called again with no write in between.
C9_ExportReadOnlyIdempotent ==
    [][lastCall'.op = "export_chain"
        => /\ chain' = chain
           /\ heap' = heap
           /\ pending_verifications' = pending_verifications
           /\ Len(lastCall'.ret) = Len(chain)
           /\ \A i \in 1 .. Len(chain) :
                 /\ lastCall'.ret[i].index = chain[i].index
                 /\ lastCall'.ret[i].hash = chain[i].hash
                 /\ lastCall'.ret[i].data = chain[i].data
           /\ lastCall.op = "export_chain" => lastCall'.ret = lastCall.ret]_vars

C9_Witness ==
    /\ lastCall.op = "export_chain"
    /\ Len(lastCall.ret) = 3
    /\ lastCall.ret[3].index = 2
    /\ heap[pending_verifications] # <<>>

(***************************************************************************)
(* Claims checked under SpecConc: the ledger as the API writes it.         *)
(***************************************************************************)
CountIn(s, r) == Cardinality({i \in DOMAIN s : s[i] = r})

RECURSIVE SealedCount(_, _, _)
SealedCount(c, h, r) ==
    IF c = <<>> THEN 0
    ELSE SealedCount(SubSeq(c, 1, Len(c) - 1), h, r)
         + (IF c[Len(c)].data.type = "VERIFICATIONS"
            THEN CountIn(h[c[Len(c)].data.verifications], r)
            ELSE 0)

Quiescent == tasks = <<>> /\ \A t \in Workers : pc[t] = "idle"

\* C3: under any interleaving of the writers every reachable chain has at
\* position i an entry whose index is i and, past the first, whose
\* previous_hash is the stored hash of the entry before it, and
\* is_chain_valid stays true.
C3_WritersSerialized ==
    /\ \A i \in 1 .. Len(chain) :
          /\ chain[i].index = i - 1
          /\ i >= 2 => chain[i].previous_hash = chain[i - 1].hash
    /\ is_chain_valid(chain, heap, Difficulty)

\* C4: the pending batch is cleared atomically with sealing: no summary is
\* at once in a chained entry and in the pending batch; an add_verification
\* that runs during a seal does not change the payload of the entry being
\* sealed or already sealed; and once the seals have completed every
\* accepted summary is in exactly one sealed entry.
C4_PendingClearedAtomically ==
    /\ \A i \in 1 .. Len(chain) :
          chain[i].data.type = "VERIFICATIONS" =>
              /\ chain[i].data.verifications # pending_verifications
              /\ Len(heap[chain[i].data.verifications]) = chain[i].data.count
              /\ chain[i].hash = calculate_hash(chain[i], heap)
    /\ \A t \in Workers :
          pc[t] \in {"mine_block", "append"} =>
              Len(heap[new_block[t].data.verifications]) = new_block[t].data.count
    /\ Quiescent =>
          \A r \in Records :
              SealedCount(chain, heap, r) = CountIn(submitted, r)

\* C5: in every reachable ledger state every entry of the chain, the
\* genesis entry included, has a stored hash with at least Difficulty
\* leading zero digits that is the digest of its own index, timestamp,
\* payload, previous_hash and nonce.
C5_EveryEntrySealed ==
    \A i \in 1 .. Len(chain) :
        /\ HasLeadingZeros(chain[i].hash, Difficulty)
        /\ chain[i].hash = calculate_hash(chain[i], heap)

\* The feedback of response k is the payload of a chained entry.
FeedbackSealed(k) ==
    \E i \in 1 .. Len(chain) :
        /\ chain[i].data.type = "FEEDBACK"
        /\ chain[i].data.feedback =
                FeedbackRecord(responses[k].feedback.feedback_id,
                               responses[k].feedback.verification_id,
                               responses[k].feedback.feedback_type,
                               responses[k].feedback.user_id)

\* C19: with the pool running every scheduled seal, every verdict summary a
\* verify request has put in the pending batch is eventually, and from then
\* on, in a chained entry.
C19_PendingEventuallySealed ==
    <>[](\A vid \in VerificationIds :
            CountIn(submitted, VerificationRecord(vid, Requester(vid))) > 0
                => SealedCount(chain, heap,
                               VerificationRecord(vid, Requester(vid))) > 0)

\* C20: when submit_feedback has returned, the statistics having been
\* recomputed, the feedback record is sealed in a ledger entry of its own.
C20_FeedbackLedgeredFirst ==
    \A k \in DOMAIN responses : FeedbackSealed(k)

(***************************************************************************)
(* Claims checked under SpecAgg.                                           *)
(***************************************************************************)
\* The orders in which the votes of all categories may be collected.
Orders ==
    {o \in [1 .. Cardinality(Categories) -> Categories] :
        \A i, j \in DOMAIN o : i # j => o[i] # o[j]}

VotesInOrder(o) ==
    [i \in DOMAIN o |->
        [category |-> o[i], vote |-> member_votes[o[i]].vote,
         confidence |-> member_votes[o[i]].confidence,
         risk_score |-> member_votes[o[i]].risk_score]]

\* C10: for a fixed set of votes the reduction yields the same overall
\* vote, overall confidence, overall risk score and vote counts for every
\* order in which the votes complete and are collected.
C10_AggregationOrderIndependent ==
    agg_pc = "done" =>
        \A o \in Orders :
            LET r == aggregate_votes(VotesInOrder(o))
            IN  /\ r.overall_vote = result.overall_vote
                /\ r.overall_confidence = result.overall_confidence
                /\ r.overall_risk_score = result.overall_risk_score
                /\ r.vote_counts = result.vote_counts

(***************************************************************************)
(* Claims checked under SpecReduce.                                        *)
(***************************************************************************)
\* The reference algorithm, on floats: each sum adds its terms in the order
\* of the votes.
RefSigned(v) ==
    CASE v.vote = "PASS" -> v.confidence
      [] v.vote = "FAIL" -> 0 - v.confidence
      [] OTHER -> 0

RECURSIVE RefSum(_)
RefSum(xs) ==
    IF xs = <<>> THEN 0
    ELSE float_add(RefSum(SubSeq(xs, 1, Len(xs) - 1)), xs[Len(xs)])

RefTotalWeight(vs) == RefSum([i \in DOMAIN vs |-> vs[i].confidence])

RefWeightedSum(vs) == RefSum([i \in DOMAIN vs |-> RefSigned(vs[i])])

RefRiskSum(vs) == RefSum([i \in DOMAIN vs |-> vs[i].risk_score])

RefFailCount(vs) == Cardinality({i \in DOMAIN vs : vs[i].vote = "FAIL"})

RefWeightedAverage(vs) ==
    IF RefTotalWeight(vs) = 0 THEN 0
    ELSE float_div(RefWeightedSum(vs), RefTotalWeight(vs))

\* Fail if weightedAverage < -0.3 or failCount > 0.25 * voteCount, otherwise
\* Pass if weightedAverage > 0.3 and failCount = 0, otherwise Warning.
RefVerdict(vs) ==
    IF \/ RefWeightedAverage(vs) < 0 - float_of_decimal(30)
       \/ 4 * RefFailCount(vs) > Len(vs)
    THEN "FAIL"
    ELSE IF RefWeightedAverage(vs) > float_of_decimal(30) /\ RefFailCount(vs) = 0
         THEN "PASS"
         ELSE "WARNING"

C18_EmptyVotesDefault ==
    (agg_pc = "done" /\ votes = <<>>) =>
        /\ result.overall_vote = "WARNING"
        /\ result.overall_confidence = 0
        /\ result.overall_risk_score = float_of_int(50)

C18_Witness ==
    /\ agg_pc = "done"
    /\ votes = <<>>
    /\ result.overall_vote = "WARNING"

(***************************************************************************)
(* Claims checked under SpecVerify and SpecVerifyFair.                     *)
(***************************************************************************)
\* The ids the call was asked to test.
Requested == {categories_to_test[i] : i \in DOMAIN categories_to_test}

\* The evaluator of future j threw or ran past the timeout.
Failed(j) ==
    future_to_category[j].behaviour \in {"slow", "hangs", "api_error", "prompt_error"}

\* The evaluator of future j threw.
Threw(j) == future_to_category[j].behaviour \in {"api_error", "prompt_error"}

\* Future j is the only future of its category.
OnlyFuture(j) ==
    \A k \in DOMAIN future_to_category :
        k # j => future_to_category[k].category # future_to_category[j].category

\* The vote the dict d holds for future j's category, without its key.
VoteFor(d, j) ==
    LET e == CHOOSE x \in {d[k] : k \in DOMAIN d} :
                    x.category = future_to_category[j].category
    IN  [vote |-> e.vote, confidence |-> e.confidence, risk_score |-> e.risk_score]

\* C13: for every requested list of registered ids and every subset of
\* evaluators that throw or time out, the call does not fail and the
\* verdict it returns has exactly the requested categories as the keys of
\* its votes, a failed evaluator's category holding a fallback WARNING vote.
C13_CompleteUnderFailure ==
    (agg_pc \notin {"verify", "submit"} /\ Requested \subseteq Categories) =>
        /\ agg_pc # "raised"
        /\ agg_pc = "returned" =>
              /\ {v.category : v \in result.votes} = Requested
              /\ Cardinality(result.votes) = Cardinality(Requested)
              /\ \A j \in DOMAIN future_to_category :
                    (Failed(j) /\ OnlyFuture(j)) =>
                        VoteFor(votes, j) \in {analyze_fallback, fan_in_fallback}

\* C14: the call always returns: an evaluator that never completes counts
\* as failed when its timeout expires and the call then returns a verdict.
C14_VerifyAlwaysReturns ==
    <>(agg_pc \in {"returned", "raised"})

\* C15: the vote recorded for an evaluator that threw is WARNING with
\* confidence 0.0 and risk score 50, whichever layer caught the failure.
C15_SingleFallbackVote ==
    \A j \in DOMAIN future_to_category :
        (future_to_category[j].collected /\ Threw(j) /\ OnlyFuture(j)) =>
            VoteFor(votes, j) =
                [vote |-> "WARNING", confidence |-> 0,
                 risk_score |-> float_of_int(50)]

\* C16: when a requested id is not registered the call fails before the
\* fan-out: no evaluator is invoked, wherever the id is in the list, and no
\* verdict is returned.
C16_UnknownCategoryRejected ==
    (/\ categories # None
     /\ \E i \in DOMAIN categories[1] : categories[1][i] \notin Categories) =>
        /\ future_to_category = <<>>
        /\ agg_pc # "returned"
        /\ result = None

\* C17: a call with empty content fails at once: no evaluator is invoked
\* and no verdict is produced.
C17_EmptyContentRejected ==
    content = "" =>
        /\ future_to_category = <<>>
        /\ agg_pc # "returned"
        /\ result = None

\* C26: when a list of ids is supplied, the empty list included, only the
\* evaluators of the supplied ids are invoked and the keys of the returned
\* votes are the supplied ids; every registered evaluator is run only when
\* no list is supplied.
C26_ExactlyTheSuppliedSubset ==
    categories # None =>
        LET supplied == {categories[1][i] : i \in DOMAIN categories[1]}
        IN  /\ \A j \in DOMAIN future_to_category :
                  future_to_category[j].category \in supplied
            /\ agg_pc = "returned" =>
                  {v.category : v \in result.votes} = supplied

(***************************************************************************)
(* Claims checked under SpecStats and SpecRetrain.                         *)
(***************************************************************************)
\* The number of records of log for category cat whose kind is in kinds.
RECURSIVE RefCount(_, _, _)
RefCount(log, cat, kinds) ==
    IF log = <<>> THEN 0
    ELSE RefCount(Tail(log), cat, kinds)
            + (IF Head(log).category_id = cat /\ Head(log).feedback_type \in kinds
               THEN 1 ELSE 0)

\* total / accuracy / rates of stats are those of the records of cat in log.
StatsMatch(stats, log, cat) ==
    LET total == RefCount(log, cat, StatFeedbackTypes)
        rate(kind) == IF total = 0 THEN 0
                      ELSE float_div(float_of_int(RefCount(log, cat, {kind})),
                                     float_of_int(total))
    IN  /\ stats.total_feedback = total
        /\ stats.accuracy = rate("CORRECT")
        /\ stats.false_positive_rate = rate("FALSE_POSITIVE")
        /\ stats.false_negative_rate = rate("FALSE_NEGATIVE")

C22_SignalOnlyOnCrossing ==
    \A k \in DOMAIN responses :
        /\ "training_job" \in DOMAIN responses[k]
                <=> responses[k].stats.total_feedback = improvement_threshold
        /\ "training_job" \in DOMAIN responses[k] =>
                responses[k].training_job.category_id
                    = responses[k].feedback.category_id

(***************************************************************************)
(* Claims checked under SpecIndex.                                         *)
(***************************************************************************)
\* The payload records of block b: the summaries of a VERIFICATIONS block,
\* the record of a FEEDBACK block.
Payload(b, h) ==
    CASE b.data.type = "VERIFICATIONS" -> h[b.data.verifications]
      [] b.data.type = "FEEDBACK" -> <<b.data.feedback>>
      [] OTHER -> <<>>

\* C23: get_verification_history(id) changes no ledger state and returns
\* exactly the sealed payload records whose verification_id is id: each
\* returned item carries the index and the hash of a chained entry and a
\* record of that entry's payload with the queried id, every such record is
\* returned as often as its entry holds it, the items are in non-decreasing
\* order of entry index, and a record that is only in the pending batch is
\* not returned.
C23_HistoryExact ==
    [][lastCall'.op = "get_verification_history"
        => LET id == lastCall'.args[1]
               ret == lastCall'.ret
           IN  /\ chain' = chain
               /\ heap' = heap
               /\ pending_verifications' = pending_verifications
               /\ \A k \in DOMAIN ret :
                     /\ ret[k].data.verification_id = id
                     /\ \E i \in DOMAIN chain :
                           /\ chain[i].index = ret[k].block_index
                           /\ chain[i].hash = ret[k].block_hash
                           /\ \E j \in DOMAIN Payload(chain[i], heap) :
                                 Payload(chain[i], heap)[j] = ret[k].data
               /\ \A i \in DOMAIN chain :
                     \A j \in DOMAIN Payload(chain[i], heap) :
                        LET r == Payload(chain[i], heap)[j]
                        IN  r.verification_id = id =>
                              Cardinality({k \in DOMAIN ret :
                                    /\ ret[k].block_index = chain[i].index
                                    /\ ret[k].data = r})
                                = CountIn(Payload(chain[i], heap), r)
               /\ \A k1, k2 \in DOMAIN ret :
                     k1 < k2 => ret[k1].block_index <= ret[k2].block_index
               /\ Len(ret) <= ChainRecords(chain, heap)]_vars

\* C23 witness: a history of two items, a summary and a feedback record,
\* returned while a summary with the same id waits in the pending batch.
C23_Witness ==
    /\ lastCall.op = "get_verification_history"
    /\ Len(lastCall.ret) = 2
    /\ lastCall.ret[1].type = "VERIFICATION"
    /\ lastCall.ret[2].type = "FEEDBACK"
    /\ \E j \in DOMAIN heap[pending_verifications] :
            heap[pending_verifications][j].verification_id = lastCall.args[1]

\* C24: get_user_verifications(a) returns every payload record of the sealed
\* chain whose user_id is a, verdict summary or feedback record, and no
\* record of another user.
C24_ByActorComplete ==
    [][lastCall'.op = "get_user_verifications"
        => LET a == lastCall'.args[1]
               ret == lastCall'.ret
           IN  /\ \A k \in DOMAIN ret : ret[k].verification.user_id = a
               /\ \A i \in DOMAIN chain :
                     \A j \in DOMAIN Payload(chain[i], heap) :
                        LET r == Payload(chain[i], heap)[j]
                        IN  r.user_id = a =>
                              \E k \in DOMAIN ret :
                                 /\ ret[k].block_index = chain[i].index
                                 /\ ret[k].verification = r]_vars

(***************************************************************************)
(* Claims checked under SpecEngine.                                        *)
(***************************************************************************)
\* C25: the report of TC260Engine.verify is PASS only if every requested
\* category produced an assessment (categories_tested is the number of
\* requested categories) and every assessment passed: a module that raises
\* and a requested id without a module are not dropped from the count.
C25_EngineFailSafe ==
    (report # None /\ report[1].overall_status = "PASS") =>
        /\ report[1].categories_tested
                = Len(engine_categories_to_test(engine_request[1]))
        /\ \A i \in DOMAIN report[1].risk_assessments :
                report[1].risk_assessments[i].passed

(***************************************************************************)
(* Claims checked under SpecLimiter.                                       *)
(***************************************************************************)
\* C27: while the counter key of an IP is live at most
\* rate_limit_per_minute of its requests are passed on to the downstream
\* handler, and a request that found the counter at or above the limit is
\* not on its way to the downstream handler.
C27_AtMostLimitForwarded ==
    /\ forwarded <= rate_limit_per_minute
    /\ \A h \in Handlers :
          (current_count[h] # None /\ current_count[h][1] >= rate_limit_per_minute)
              => rl_pc[h] # "call_next"

(***************************************************************************)
(* Claims checked under SpecPdca.                                          *)
(***************************************************************************)
\* C28: no call of add_objective, add_policy, execute_verification,
\* add_review, add_action or complete_action moves the phase of a cycle to
\* an earlier phase of PLAN, DO, CHECK, ACT; a cycle in ACT stays in ACT.
C28_PhaseOnlyForward ==
    [][(/\ pdca_calls' = pdca_calls + 1
        /\ pdca_last'.op \in {"add_objective", "add_policy",
                              "execute_verification", "add_review",
                              "add_action", "complete_action"})
        => \A id \in DOMAIN cycles :
              /\ id \in DOMAIN cycles'
              /\ PhaseRank(cycles'[id].phase) >= PhaseRank(cycles[id].phase)
              /\ cycles[id].phase = "ACT" => cycles'[id].phase = "ACT"]_vars

\* C28 witness: add_review has been called on a cycle that add_action had
\* moved to ACT.
C28_Witness ==
    /\ pdca_last.op = "add_review"
    /\ pdca_last.ret = "cycle"
    /\ cycles[pdca_last.cycle_id[1]].phase = "ACT"
    /\ cycles[pdca_last.cycle_id[1]].act.actions # <<>>
    /\ cycles[pdca_last.cycle_id[1]].check.reviews # <<>>

\* C29: a cycle whose status is COMPLETED has at least one action and all
\* its actions are COMPLETED.
C29_CompletedHasNoPendingAction ==
    \A id \in DOMAIN cycles :
        cycles[id].status = "COMPLETED" =>
            /\ cycles[id].act.actions # <<>>
            /\ \A i \in DOMAIN cycles[id].act.actions :
                    cycles[id].act.actions[i].status = "COMPLETED"

\* C30: create_cycle stores its cycle under an id no stored cycle has: the
\* store holds one cycle more and the cycles it held are unchanged, also
\* when the clock has not moved since the last create_cycle.
C30_CreateNeverReplaces ==
    [][(pdca_calls' = pdca_calls + 1 /\ pdca_last'.op = "create_cycle")
        => /\ Cardinality(DOMAIN cycles') = Cardinality(DOMAIN cycles) + 1
           /\ \A id \in DOMAIN cycles :
                 id \in DOMAIN cycles' /\ cycles'[id] = cycles[id]]_vars
====
